---- MODULE Spec2Model ----
(***************************************************************************)
(* A model of src/src/parser_core.rs: the expression Context (text,        *)
(* cursor, current_token) and its lexer / recursive-descent evaluator.     *)
(* Characters are one-character strings, a text is a sequence of them      *)
(* (Vec<char>), indices are zero-based as in the source (text[c] of the    *)
(* source is text[c + 1] here).                                            *)
(***************************************************************************)
EXTENDS Integers, Sequences, FiniteSets, TLC

VARIABLES
    text,             \* Context.text: Vec<char>
    cursor,           \* Context.cursor: usize
    current_token,    \* Context.current_token: Token
    overflow_checks,  \* the build: TRUE = overflow checks on (debug/test), FALSE = off (release)
    pc,               \* position of the single thread of control
    r,                \* expr: the accumulator `r`; at "done" the returned value
    op,               \* expr: the operator captured at line 131 ("" before the first one)
    buffer,           \* eat_int: the digit buffer
    tval,             \* the value the last call of term returned
    failure,          \* the panic that aborted the evaluation ("" if none)
    start,            \* history: cursor when the running (or last) expr was called, -1 if none
    term_start        \* history: cursor when the running term was called, -1 if none

vars == <<text, cursor, current_token, overflow_checks, pc, r, op, buffer,
          tval, failure, start, term_start>>

---------------------------------------------------------------------------
(* Characters and tokens *)

\* char::is_digit(10)
Digits == {"0", "1", "2", "3", "4", "5", "6", "7", "8", "9"}

\* char::is_whitespace (the members used here)
Whitespace == {" ", "\t", "\n"}

\* the four match arms '+', '-', '/', '*'
Operators == {"+", "-", "/", "*"}

TokenType == {"Int", "Op", "SPC", "EOF", "NOP"}

Token(k, v) == [token_type |-> k, value |-> v]

NopToken == Token("NOP", "NOP")

\* i32::MAX and i32::MIN
I32Max == 2147483647

I32Min == (-I32Max) - 1

---------------------------------------------------------------------------
(* Outcomes of the fallible helpers: err = "" means the call returned. *)

TokOk(tok) == [err |-> "", tok |-> tok]

TokPanic(e) == [err |-> e, tok |-> NopToken]

\* get_next_token with a default arm that yields End-of-input instead of
\* panicking (sensitivity variant for C7)
get_next_token_lenient(t, c, oc) ==
    IF Len(t) = 0
    THEN IF oc THEN TokPanic("subtract_overflow") ELSE TokPanic("index_out_of_bounds")
    ELSE IF c > Len(t) - 1
    THEN TokOk(Token("EOF", "EOF"))
    ELSE LET ch == t[c + 1] IN
         CASE ch \in Digits     -> TokOk(Token("Int", ch))
           [] ch \in Whitespace -> TokOk(Token("SPC", "SPC"))
           [] ch \in Operators  -> TokOk(Token("Op", ch))
           [] OTHER             -> TokOk(Token("EOF", "EOF"))

\* get_next_token with the end test cursor >= len - 1 (sensitivity variant
\* for C10)
get_next_token_early_eof(t, c, oc) ==
    IF Len(t) = 0
    THEN IF oc THEN TokPanic("subtract_overflow") ELSE TokPanic("index_out_of_bounds")
    ELSE IF c >= Len(t) - 1
    THEN TokOk(Token("EOF", "EOF"))
    ELSE LET ch == t[c + 1] IN
         CASE ch \in Digits     -> TokOk(Token("Int", ch))
           [] ch \in Whitespace -> TokOk(Token("SPC", "SPC"))
           [] ch \in Operators  -> TokOk(Token("Op", ch))
           [] OTHER             -> TokPanic("parse_error")

\* Context::get_next_token: classify the character at cursor c of text t.
\* text.len() - 1 is computed on usize: on the empty text it panics when
\* overflow checks are on, and wraps to usize::MAX when they are off, so
\* that the comparison is false and text[cursor] is out of bounds.
get_next_token(t, c, oc) ==
    IF Len(t) = 0
    THEN IF oc THEN TokPanic("subtract_overflow") ELSE TokPanic("index_out_of_bounds")
    ELSE IF c > Len(t) - 1
    THEN TokOk(Token("EOF", "EOF"))
    ELSE LET ch == t[c + 1] IN
         CASE ch \in Digits     -> TokOk(Token("Int", ch))
           [] ch \in Whitespace -> TokOk(Token("SPC", "SPC"))
           [] ch = "+"          -> TokOk(Token("Op", "+"))
           [] ch = "-"          -> TokOk(Token("Op", "-"))
           [] ch = "/"          -> TokOk(Token("Op", "/"))
           [] ch = "*"          -> TokOk(Token("Op", "*"))
           [] OTHER             -> TokPanic("parse_error")

\* eat that rescans before it advances the cursor (sensitivity variant for C15)
eat_stale(t, c, tok, expect_type, oc) ==
    IF tok.token_type = expect_type
    THEN LET g == get_next_token(t, c, oc) IN
         [err |-> g.err, cursor |-> c + 1,
          current_token |-> IF g.err = "" THEN g.tok ELSE tok]
    ELSE [err |-> IF c < Len(t) THEN "eat_mismatch" ELSE "eat_mismatch_out_of_bounds",
          cursor |-> c, current_token |-> tok]

\* eat that advances the cursor before it compares the kinds (sensitivity
\* variant for C16)
eat_advance_first(t, c, tok, expect_type, oc) ==
    IF tok.token_type = expect_type
    THEN LET g == get_next_token(t, c + 1, oc) IN
         [err |-> g.err, cursor |-> c + 1,
          current_token |-> IF g.err = "" THEN g.tok ELSE tok]
    ELSE [err |-> IF c + 1 < Len(t) THEN "eat_mismatch" ELSE "eat_mismatch_out_of_bounds",
          cursor |-> c + 1, current_token |-> tok]

\* eat without the cursor += 1 of line 83 (sensitivity variant for C18)
eat_no_advance(t, c, tok, expect_type, oc) ==
    IF tok.token_type = expect_type
    THEN LET g == get_next_token(t, c, oc) IN
         [err |-> g.err, cursor |-> c,
          current_token |-> IF g.err = "" THEN g.tok ELSE tok]
    ELSE [err |-> IF c < Len(t) THEN "eat_mismatch" ELSE "eat_mismatch_out_of_bounds",
          cursor |-> c, current_token |-> tok]

\* Context::eat: on a match the cursor is advanced first and the rescan may
\* then panic with the cursor already advanced; on a mismatch it panics with
\* the message of line 86 ("eat_mismatch"; formatting the message indexes
\* text[cursor], which is itself out of bounds at the end of the text).
eat(t, c, tok, expect_type, oc) ==
    IF tok.token_type = expect_type
    THEN LET g == get_next_token(t, c + 1, oc) IN
         [err |-> g.err, cursor |-> c + 1,
          current_token |-> IF g.err = "" THEN g.tok ELSE tok]
    ELSE [err |-> IF c < Len(t) THEN "eat_mismatch" ELSE "eat_mismatch_out_of_bounds",
          cursor |-> c, current_token |-> tok]

\* look_ahead without the restoring cursor -= by (sensitivity variant for C14)
look_ahead_no_restore(t, c, by, oc) ==
    LET g == get_next_token(t, c + by, oc) IN
    [err |-> g.err, cursor |-> c + by, ahead |-> g.tok]

\* Context::look_ahead: cursor += by; scan; cursor -= by.  A panic of the
\* scan leaves the cursor advanced.
look_ahead(t, c, by, oc) ==
    LET g == get_next_token(t, c + by, oc) IN
    [err |-> g.err, cursor |-> IF g.err = "" THEN c ELSE c + by, ahead |-> g.tok]

---------------------------------------------------------------------------
(* i32 arithmetic.  Every intermediate value stays within the i32 range. *)

DigitValue(ch) ==
    CASE ch = "0" -> 0 [] ch = "1" -> 1 [] ch = "2" -> 2 [] ch = "3" -> 3
      [] ch = "4" -> 4 [] ch = "5" -> 5 [] ch = "6" -> 6 [] ch = "7" -> 7
      [] ch = "8" -> 8 [] ch = "9" -> 9

IntOk(v) == [err |-> "", val |-> v]

IntPanic(e) == [err |-> e, val |-> 0]

RECURSIVE ParseDigits(_, _, _)
\* the digits of b from index i on, appended to the value acc; -1 on overflow
ParseDigits(b, i, acc) ==
    IF i > Len(b) THEN acc
    ELSE LET d == DigitValue(b[i]) IN
         IF acc > (I32Max - d) \div 10 THEN -1
         ELSE ParseDigits(b, i + 1, acc * 10 + d)

\* parse_i32 reading the empty string as 0 (sensitivity variant for C6)
parse_i32_lenient(b) ==
    IF Len(b) = 0 THEN IntOk(0)
    ELSE LET v == ParseDigits(b, 1, 0) IN
         IF v < 0 THEN IntPanic("parse_overflow") ELSE IntOk(v)

\* buffer.parse::<i32>().unwrap() on a string of decimal digits
parse_i32(b) ==
    IF Len(b) = 0 THEN IntPanic("parse_empty")
    ELSE LET v == ParseDigits(b, 1, 0) IN
         IF v < 0 THEN IntPanic("parse_overflow") ELSE IntOk(v)

\* a + b modulo 2^32 as an i32, for i32 a and b
WrapAdd(a, b) ==
    IF a >= 0 /\ b >= 0 /\ a > I32Max - b THEN ((a - I32Max) - 1) + ((b - I32Max) - 1)
    ELSE IF a < 0 /\ b < 0 /\ a < I32Min - b THEN ((a + I32Max) + 1) + ((b + I32Max) + 1)
    ELSE a + b

\* a - b modulo 2^32 as an i32, for i32 a and b >= 0
WrapSub(a, b) ==
    IF a < I32Min + b THEN (((a + I32Max) + 1) - b) + I32Max + 1
    ELSE a - b

RECURSIVE WrapMul(_, _)
\* a * b modulo 2^32 as an i32, for i32 a and b >= 0
WrapMul(a, b) ==
    IF b = 0 THEN 0
    ELSE CHOOSE v \in { IF b % 2 = 1 THEN WrapAdd(WrapAdd(h, h), a) ELSE WrapAdd(h, h) :
                          h \in {WrapMul(a, b \div 2)} } : TRUE

\* whether a * b leaves the i32 range, for i32 a and b >= 0
MulOverflows(a, b) ==
    IF b = 0 \/ a = 0 THEN FALSE
    ELSE IF a > 0 THEN a > I32Max \div b
    ELSE a < -((I32Max \div b) + (IF I32Max % b = b - 1 THEN 1 ELSE 0))

\* a / b rounded down (sensitivity variant for C17)
TruncDiv_floor(a, b) == a \div b

\* a / b truncated toward zero, for b > 0
TruncDiv(a, b) == IF a >= 0 THEN a \div b ELSE (a + b - 1) \div b

\* the match of lines 134-140 on an accumulator a and a term value b >= 0
apply_op(o, a, b, oc) ==
    CASE o = "+" -> IF a > I32Max - b
                    THEN IF oc THEN IntPanic("add_overflow") ELSE IntOk(WrapAdd(a, b))
                    ELSE IntOk(a + b)
      [] o = "-" -> IF a < I32Min + b
                    THEN IF oc THEN IntPanic("subtract_overflow") ELSE IntOk(WrapSub(a, b))
                    ELSE IntOk(a - b)
      [] o = "/" -> IF b = 0 THEN IntPanic("divide_by_zero") ELSE IntOk(TruncDiv(a, b))
      [] o = "*" -> IF MulOverflows(a, b)
                    THEN IF oc THEN IntPanic("multiply_overflow") ELSE IntOk(WrapMul(a, b))
                    ELSE IntOk(a * b)
      [] OTHER   -> IntPanic("illegal_op")

---------------------------------------------------------------------------
(* Inputs *)

\* number of pieces an arbitrary initial text is made of
MaxPieces == 3

\* number of operators of a whitespace-free initial expression
MaxOps == 2

\* length of the whitespace runs around the tokens of a spaced initial expression
MaxGap == 2

\* number of pieces a text given to set_text is made of
MaxSetPieces == 1

Terms ==
    { <<"0">>, <<"2">>, <<"7">>,
      <<"2", "1", "4", "7", "4", "8", "3", "6", "4", "7">> }

OpPieces == { <<"+">>, <<"-">>, <<"/">>, <<"*">> }

Pieces == Terms \cup OpPieces \cup { <<" ">>, <<"$">> }

RECURSIVE TextsOf(_)
\* every concatenation of at most n pieces: well-formed or not
TextsOf(n) ==
    IF n = 0 THEN { << >> }
    ELSE LET prev == TextsOf(n - 1) IN prev \cup { t \o p : t \in prev, p \in Pieces }

RECURSIVE FoldsOf(_)
\* t0 op1 t1 ... opk tk with k <= n, no whitespace
FoldsOf(n) ==
    IF n = 0 THEN Terms
    ELSE LET prev == FoldsOf(n - 1) IN
         prev \cup { t \o o \o d : t \in prev, o \in OpPieces, d \in Terms }

Spaces(n) == [i \in 1..n |-> " "]

\* a op b with whitespace runs before a, around op and after b
SpacedOf(n) ==
    { Spaces(g[1]) \o a \o Spaces(g[2]) \o o \o Spaces(g[3]) \o b \o Spaces(g[4]) :
        g \in [1..4 -> 0..n], a \in Terms, o \in OpPieces, b \in Terms }

\* a term behind one space
LedTerms == { <<" ">> \o d : d \in Terms }

\* the texts given to set_text
SetTexts == TextsOf(MaxSetPieces) \cup LedTerms

\* every suffix of a text of S, the empty one included
SuffixesOf(S) == UNION { { SubSeq(t, i, Len(t)) : i \in 1..(Len(t) + 1) } : t \in S }

\* the texts a Context is constructed over
Texts ==
    TextsOf(MaxPieces) \cup FoldsOf(MaxOps) \cup SpacedOf(MaxGap) \cup SuffixesOf(SetTexts)

---------------------------------------------------------------------------
(* The state machine *)

\* Context::new, for every input text and either build
Init ==
    /\ text \in Texts
    /\ cursor = 0
    /\ current_token = NopToken
    /\ overflow_checks \in BOOLEAN
    /\ pc = "idle"
    /\ r = 0
    /\ op = ""
    /\ buffer = << >>
    /\ tval = 0
    /\ failure = ""
    /\ start = -1
    /\ term_start = -1

\* a panic: the evaluation ends, the Context keeps cursor c and its token
Panic(e, c) ==
    /\ pc' = "abort"
    /\ failure' = e
    /\ cursor' = c
    /\ UNCHANGED <<text, current_token, overflow_checks, r, op, buffer, tval,
                   start, term_start>>

\* set_text that also rewinds the Context as new does (sensitivity variant
\* for C9)
set_text_reset(t) ==
    /\ pc \in {"idle", "done"}
    /\ text' = t
    /\ cursor' = 0
    /\ current_token' = NopToken
    /\ pc' = "idle"
    /\ r' = 0
    /\ UNCHANGED <<overflow_checks, op, buffer, tval, failure, start, term_start>>

\* Context::set_text
set_text(t) ==
    /\ pc \in {"idle", "done"}
    /\ text' = t
    /\ pc' = "idle"
    /\ r' = 0
    /\ UNCHANGED <<cursor, current_token, overflow_checks, op, buffer, tval,
                   failure, start, term_start>>

\* expr scanning its first token at the start of the text, not at the cursor
\* (sensitivity variant for C19)
expr_scan_from_zero ==
    /\ pc \in {"idle", "done"}
    /\ LET g == get_next_token(text, 0, overflow_checks) IN
       /\ start' = cursor
       /\ r' = 0
       /\ op' = ""
       /\ IF g.err # ""
          THEN pc' = "abort" /\ failure' = g.err /\ current_token' = current_token
          ELSE pc' = "term" /\ failure' = failure /\ current_token' = g.tok
       /\ UNCHANGED <<text, cursor, overflow_checks, buffer, tval, term_start>>

\* Context::expr, line 126: the first scan, then the call of term at line 128
expr_scan ==
    /\ pc \in {"idle", "done"}
    /\ LET g == get_next_token(text, cursor, overflow_checks) IN
       /\ start' = cursor
       /\ r' = 0
       /\ op' = ""
       /\ IF g.err # ""
          THEN pc' = "abort" /\ failure' = g.err /\ current_token' = current_token
          ELSE pc' = "term" /\ failure' = failure /\ current_token' = g.tok
       /\ UNCHANGED <<text, cursor, overflow_checks, buffer, tval, term_start>>

\* Context::term, entry: it calls eat_whitespace
term ==
    /\ pc = "term"
    /\ term_start' = cursor
    /\ pc' = "eat_whitespace"
    /\ UNCHANGED <<text, cursor, current_token, overflow_checks, r, op, buffer,
                   tval, failure, start>>

\* eat_whitespace without the test of line 111 (sensitivity variant for C20)
eat_whitespace_unguarded ==
    /\ pc = "eat_whitespace"
    /\ LET e == eat(text, cursor, current_token, "SPC", overflow_checks) IN
       IF e.err # ""
       THEN Panic(e.err, e.cursor)
       ELSE /\ cursor' = e.cursor
            /\ current_token' = e.current_token
            /\ pc' = "look_ahead"
            /\ UNCHANGED <<text, overflow_checks, r, op, buffer, tval,
                           failure, start, term_start>>

\* Context::eat_whitespace, lines 111-112; when the token is no whitespace it
\* returns (through every level of its recursion) to term, which calls eat_int
eat_whitespace ==
    /\ pc = "eat_whitespace"
    /\ IF current_token.token_type = "SPC"
       THEN LET e == eat(text, cursor, current_token, "SPC", overflow_checks) IN
            IF e.err # ""
            THEN Panic(e.err, e.cursor)
            ELSE /\ cursor' = e.cursor
                 /\ current_token' = e.current_token
                 /\ pc' = "look_ahead"
                 /\ UNCHANGED <<text, overflow_checks, r, op, buffer, tval,
                                failure, start, term_start>>
       ELSE /\ pc' = "eat_int"
            /\ buffer' = << >>
            /\ UNCHANGED <<text, cursor, current_token, overflow_checks, r, op,
                           tval, failure, start, term_start>>

\* Context::eat_whitespace, lines 113-115: look_ahead(1) decides the recursion
eat_whitespace_look_ahead ==
    /\ pc = "look_ahead"
    /\ LET l == look_ahead(text, cursor, 1, overflow_checks) IN
       IF l.err # ""
       THEN Panic(l.err, l.cursor)
       ELSE /\ cursor' = l.cursor
            /\ IF l.ahead.token_type = "SPC"
               THEN pc' = "eat_whitespace" /\ buffer' = buffer
               ELSE pc' = "eat_int" /\ buffer' = << >>
            /\ UNCHANGED <<text, current_token, overflow_checks, r, op, tval,
                           failure, start, term_start>>

\* the digit loop also eating a whitespace that follows the digit
\* (sensitivity variant for C11)
eat_int_loop_skipping ==
    /\ pc = "eat_int"
    /\ current_token.token_type = "Int"
    /\ LET e == eat(text, cursor, current_token, "Int", overflow_checks)
           w == IF e.err = "" /\ e.current_token.token_type = "SPC"
                THEN eat(text, e.cursor, e.current_token, "SPC", overflow_checks)
                ELSE e
       IN  /\ buffer' = Append(buffer, current_token.value)
           /\ cursor' = w.cursor
           /\ current_token' = w.current_token
           /\ IF w.err # ""
              THEN pc' = "abort" /\ failure' = w.err
              ELSE pc' = pc /\ failure' = failure
           /\ UNCHANGED <<text, overflow_checks, r, op, tval, start, term_start>>

\* Context::eat_int, lines 99-102: one iteration of the digit loop
eat_int_loop ==
    /\ pc = "eat_int"
    /\ current_token.token_type = "Int"
    /\ LET e == eat(text, cursor, current_token, "Int", overflow_checks) IN
       /\ buffer' = Append(buffer, current_token.value)
       /\ cursor' = e.cursor
       /\ current_token' = e.current_token
       /\ IF e.err # ""
          THEN pc' = "abort" /\ failure' = e.err
          ELSE pc' = pc /\ failure' = failure
       /\ UNCHANGED <<text, overflow_checks, r, op, tval, start, term_start>>

\* eat_int that also consumes the token that ended the digit loop
\* (sensitivity variant for C8)
eat_int_parse_consuming ==
    /\ pc = "eat_int"
    /\ current_token.token_type # "Int"
    /\ LET p == parse_i32(buffer)
           g == get_next_token(text, cursor + 1, overflow_checks)
       IN  IF p.err # ""
           THEN Panic(p.err, cursor)
           ELSE /\ tval' = p.val
                /\ buffer' = << >>
                /\ pc' = "term_ret"
                /\ cursor' = cursor + 1
                /\ current_token' = IF g.err = "" THEN g.tok ELSE current_token
                /\ UNCHANGED <<text, overflow_checks, r, op, failure, start,
                               term_start>>

\* Context::eat_int, lines 103-107: leave the loop and parse the buffer;
\* term returns the value
eat_int_parse ==
    /\ pc = "eat_int"
    /\ current_token.token_type # "Int"
    /\ LET p == parse_i32(buffer) IN
       IF p.err # ""
       THEN Panic(p.err, cursor)
       ELSE /\ tval' = p.val
            /\ buffer' = << >>
            /\ pc' = "term_ret"
            /\ UNCHANGED <<text, cursor, current_token, overflow_checks, r, op,
                           failure, start, term_start>>

\* Context::expr, line 128 (the first term) and lines 134-140 (the fold)
expr_fold ==
    /\ pc = "term_ret"
    /\ LET a == IF op = "" THEN IntOk(tval) ELSE apply_op(op, r, tval, overflow_checks) IN
       IF a.err # ""
       THEN Panic(a.err, cursor)
       ELSE /\ r' = a.val
            /\ tval' = 0
            /\ pc' = "while"
            /\ UNCHANGED <<text, cursor, current_token, overflow_checks, op,
                           buffer, failure, start, term_start>>

\* the operator loop reading the operator only after eat has replaced
\* current_token (sensitivity variant for C1)
expr_while_late_op ==
    /\ pc = "while"
    /\ current_token.token_type = "Op"
    /\ LET e == eat(text, cursor, current_token, "Op", overflow_checks) IN
       IF e.err # ""
       THEN Panic(e.err, e.cursor)
       ELSE /\ op' = e.current_token.value
            /\ cursor' = e.cursor
            /\ current_token' = e.current_token
            /\ pc' = "term"
            /\ UNCHANGED <<text, overflow_checks, r, buffer, tval, failure,
                           start, term_start>>

\* Context::expr, lines 130-133: an operator follows; capture it, eat it and
\* call term.  op is the operator text as it is at line 131, before eat
\* replaces current_token.
expr_while ==
    /\ pc = "while"
    /\ current_token.token_type = "Op"
    /\ LET e == eat(text, cursor, current_token, "Op", overflow_checks) IN
       IF e.err # ""
       THEN Panic(e.err, e.cursor)
       ELSE /\ op' = current_token.value
            /\ cursor' = e.cursor
            /\ current_token' = e.current_token
            /\ pc' = "term"
            /\ UNCHANGED <<text, overflow_checks, r, buffer, tval, failure,
                           start, term_start>>

\* Context::expr, lines 130 and 142: no operator follows; return r
expr_return ==
    /\ pc = "while"
    /\ current_token.token_type # "Op"
    /\ pc' = "done"
    /\ op' = ""
    /\ term_start' = -1
    /\ UNCHANGED <<text, cursor, current_token, overflow_checks, r, buffer,
                   tval, failure, start>>

Next ==
    \/ \E t \in SetTexts : set_text(t)
    \/ expr_scan
    \/ term
    \/ eat_whitespace
    \/ eat_whitespace_look_ahead
    \/ eat_int_loop
    \/ eat_int_parse
    \/ expr_fold
    \/ expr_while
    \/ expr_return

Spec == Init /\ [][Next]_vars

\* the steps of a call of expr in progress
RunStep ==
    \/ term
    \/ eat_whitespace
    \/ eat_whitespace_look_ahead
    \/ eat_int_loop
    \/ eat_int_parse
    \/ expr_fold
    \/ expr_while
    \/ expr_return

\* number of pieces of the text of a Context whose calls of expr are
\* followed to their end
MaxLivePieces == 3

\* Context::new over an arbitrary text
LiveInit ==
    /\ text \in TextsOf(MaxLivePieces)
    /\ cursor = 0
    /\ current_token = NopToken
    /\ overflow_checks \in BOOLEAN
    /\ pc = "idle"
    /\ r = 0
    /\ op = ""
    /\ buffer = << >>
    /\ tval = 0
    /\ failure = ""
    /\ start = -1
    /\ term_start = -1

\* the calls of expr on a Context whose text is never replaced
LiveNext == expr_scan \/ RunStep

\* expr is sequential code: once called it keeps executing until it returns
\* or panics, while the caller is free never to call expr again
LiveSpec == LiveInit /\ [][LiveNext]_vars /\ WF_vars(RunStep)

---------------------------------------------------------------------------
(* Context::eat called on its own, on any Context and with any expected    *)
(* kind (expr only ever calls it with the kind of the current token).      *)

\* number of pieces of the text of a Context eat is called on
MaxEatPieces == 2

\* a Context between two steps: the token is the scan at the cursor, or the
\* placeholder of a Context that was never scanned
EatInit ==
    /\ text \in TextsOf(MaxEatPieces)
    /\ cursor \in 0..Len(text)
    /\ overflow_checks \in BOOLEAN
    /\ current_token \in
          {NopToken} \cup
          (IF get_next_token(text, cursor, overflow_checks).err = ""
           THEN {get_next_token(text, cursor, overflow_checks).tok} ELSE {})
    /\ pc = "eat"
    /\ r = 0
    /\ op = ""
    /\ buffer = << >>
    /\ tval = 0
    /\ failure = ""
    /\ start = -1
    /\ term_start = -1

\* Context::eat(expect_type), lines 81-88
eat_call(expect_type) ==
    /\ pc = "eat"
    /\ LET e == eat(text, cursor, current_token, expect_type, overflow_checks) IN
       /\ cursor' = e.cursor
       /\ current_token' = e.current_token
       /\ IF e.err # ""
          THEN pc' = "abort" /\ failure' = e.err
          ELSE pc' = "eat_ret" /\ failure' = failure
    /\ UNCHANGED <<text, overflow_checks, r, op, buffer, tval, start, term_start>>

EatNext == \E k \in TokenType : eat_call(k)

EatSpec == EatInit /\ [][EatNext]_vars

---------------------------------------------------------------------------
(* A call of expr as a function of the Context it is called on: the outcome *)
(* is err ("" when it returns), the value, and the cursor and current_token *)
(* the Context is left with.                                                *)

ExprOk(v, c, tok) == [err |-> "", val |-> v, cursor |-> c, tok |-> tok]

ExprPanic(e, c, tok) == [err |-> e, val |-> 0, cursor |-> c, tok |-> tok]

RECURSIVE eat_whitespace_result(_, _, _, _)
\* Context::eat_whitespace
eat_whitespace_result(t, c, tok, oc) ==
    IF tok.token_type # "SPC" THEN ExprOk(0, c, tok)
    ELSE LET e == eat(t, c, tok, "SPC", oc) IN
         IF e.err # "" THEN ExprPanic(e.err, e.cursor, e.current_token)
         ELSE LET l == look_ahead(t, e.cursor, 1, oc) IN
              IF l.err # "" THEN ExprPanic(l.err, l.cursor, e.current_token)
              ELSE IF l.ahead.token_type = "SPC"
              THEN eat_whitespace_result(t, e.cursor, e.current_token, oc)
              ELSE ExprOk(0, e.cursor, e.current_token)

RECURSIVE eat_int_result(_, _, _, _, _)
\* Context::eat_int, with the digits pushed so far
eat_int_result(t, c, tok, buf, oc) ==
    IF tok.token_type = "Int"
    THEN LET e == eat(t, c, tok, "Int", oc) IN
         IF e.err # "" THEN ExprPanic(e.err, e.cursor, e.current_token)
         ELSE eat_int_result(t, e.cursor, e.current_token, Append(buf, tok.value), oc)
    ELSE LET p == parse_i32(buf) IN
         IF p.err # "" THEN ExprPanic(p.err, c, tok) ELSE ExprOk(p.val, c, tok)

\* Context::term
term_result(t, c, tok, oc) ==
    LET w == eat_whitespace_result(t, c, tok, oc) IN
    IF w.err # "" THEN w ELSE eat_int_result(t, w.cursor, w.tok, << >>, oc)

RECURSIVE expr_loop_result(_, _, _, _, _)
\* Context::expr, the loop of lines 130-141 with accumulator acc
expr_loop_result(t, c, tok, acc, oc) ==
    IF tok.token_type # "Op" THEN ExprOk(acc, c, tok)
    ELSE LET e == eat(t, c, tok, "Op", oc) IN
         IF e.err # "" THEN ExprPanic(e.err, e.cursor, e.current_token)
         ELSE LET m == term_result(t, e.cursor, e.current_token, oc) IN
              IF m.err # "" THEN m
              ELSE LET a == apply_op(tok.value, acc, m.val, oc) IN
                   IF a.err # "" THEN ExprPanic(a.err, m.cursor, m.tok)
                   ELSE expr_loop_result(t, m.cursor, m.tok, a.val, oc)

\* Context::expr on a Context with text t, cursor c and current_token tok
expr_result(t, c, tok, oc) ==
    LET g == get_next_token(t, c, oc) IN
    IF g.err # "" THEN ExprPanic(g.err, c, tok)
    ELSE LET m == term_result(t, c, g.tok, oc) IN
         IF m.err # "" THEN m ELSE expr_loop_result(t, m.cursor, m.tok, m.val, oc)

---------------------------------------------------------------------------
(* The grammar and the arithmetic the properties are stated against,      *)
(* written over the whole text and independently of the scanner.          *)

IsWs(ch) == ch \in Whitespace

Recognized(ch) == ch \in Digits \cup Whitespace \cup Operators

\* the text with its whitespace removed
Strip(t) == SelectSeq(t, LAMBDA ch : ~IsWs(ch))

\* t0 op1 t1 ... opn tn: digit runs separated by single operators, nothing else
WellFormed(t) ==
    /\ Len(t) > 0
    /\ \A i \in 1..Len(t) : t[i] \in Digits \cup Operators
    /\ t[1] \in Digits
    /\ t[Len(t)] \in Digits
    /\ \A i \in 1..(Len(t) - 1) : ~(t[i] \in Operators /\ t[i + 1] \in Operators)

\* a fresh Context: the evaluation in progress (or finished) started at cursor 0
Fresh == start = 0

Val(v) == [ok |-> TRUE, val |-> v]

Undefined == [ok |-> FALSE, val |-> 0]

\* 2^31 divided by b > 0, rounded down
CeilQuot(b) == (I32Max \div b) + (IF I32Max % b = b - 1 THEN 1 ELSE 0)

\* the mathematical a o b for b >= 0, undefined on a division by zero and
\* outside the signed 32-bit range
MathOp(o, a, b) ==
    CASE o = "+" -> IF a > I32Max - b THEN Undefined ELSE Val(a + b)
      [] o = "-" -> IF a < I32Min + b THEN Undefined ELSE Val(a - b)
      [] o = "*" -> IF b = 0 \/ a = 0 THEN Val(0)
                    ELSE IF a > 0 /\ a > I32Max \div b THEN Undefined
                    ELSE IF a < 0 /\ -(a + 1) >= CeilQuot(b) THEN Undefined
                    ELSE Val(a * b)
      [] o = "/" -> IF b = 0 THEN Undefined
                    ELSE IF a >= 0 THEN Val(a \div b)
                    ELSE LET m == -(a + 1) IN
                         Val((-(m \div b)) - (IF m % b = b - 1 THEN 1 ELSE 0))

RECURSIVE LeftFold(_, _, _, _, _)
\* the left fold of the well-formed text t from index i on: acc is the fold
\* of the terms before the pending operator o, cur the value of the digits
\* of the current term read so far
LeftFold(t, i, acc, o, cur) ==
    IF i > Len(t)
    THEN IF o = "" THEN Val(cur) ELSE MathOp(o, acc, cur)
    ELSE IF t[i] \in Digits
    THEN LET d == DigitValue(t[i]) IN
         IF cur > (I32Max - d) \div 10 THEN Undefined
         ELSE LeftFold(t, i + 1, acc, o, 10 * cur + d)
    ELSE LET a == IF o = "" THEN Val(cur) ELSE MathOp(o, acc, cur) IN
         IF a.ok THEN LeftFold(t, i + 1, a.val, t[i], 0) ELSE Undefined

\* (((t0 op1 t1) op2 t2) ... opn tn), undefined when a term or a step
\* leaves the signed 32-bit range or divides by zero
Fold(t) == LeftFold(t, 1, 0, "", 0)

---------------------------------------------------------------------------
(* C1 *)

\* C1: on a fresh Context over a whitespace-free text t0 op1 t1 ... opn tn
\* whose left fold neither divides by zero nor leaves the signed 32-bit
\* range, expr does not abort and the value it returns is the strict left
\* fold (((t0 op1 t1) op2 t2) ... opn tn).
C1_LeftToRight ==
    (Fresh /\ WellFormed(text) /\ Fold(text).ok)
        => /\ pc # "abort"
           /\ pc = "done" => r = Fold(text).val

\* "2+7*2" has returned 18 = (2+7)*2, not 16 = 2+(7*2)
C1_Witness ==
    /\ pc = "done"
    /\ Fresh
    /\ text = <<"2", "+", "7", "*", "2">>
    /\ r = 18

---------------------------------------------------------------------------
(* C2, C3, C4, C5 *)

RECURSIVE DigitRun(_, _)
\* the length of the longest run of digits of t that starts at index i
DigitRun(t, i) ==
    IF i <= Len(t) /\ t[i] \in Digits THEN 1 + DigitRun(t, i + 1) ELSE 0

RECURSIVE SkipWs(_, _)
\* the first index from i on that holds no whitespace (Len(t) + 1 if none)
SkipWs(t, i) ==
    IF i <= Len(t) /\ IsWs(t[i]) THEN SkipWs(t, i + 1) ELSE i

\* a, one space, an operator, one space, b
IsSpacedBinary(t) ==
    LET n == DigitRun(t, 1) IN
    /\ n >= 1
    /\ Len(t) >= n + 4
    /\ t[n + 1] = " "
    /\ t[n + 2] \in Operators
    /\ t[n + 3] = " "
    /\ DigitRun(t, n + 4) = Len(t) - (n + 3)

\* a whitespace-free expression with whitespace runs inserted before,
\* between and after its tokens, none inside a term
IsSpaced(t) ==
    /\ WellFormed(Strip(t))
    /\ \A i \in 1..Len(t) :
          (t[i] \in Digits /\ i < Len(t) /\ IsWs(t[i + 1]))
              => (SkipWs(t, i + 1) > Len(t) \/ t[SkipWs(t, i + 1)] \notin Digits)

\* C2: on a fresh Context over "a op b" with exactly one space on each side
\* of the operator, expr returns the value a op b.
C2_SpacedBinary ==
    (Fresh /\ pc = "done" /\ IsSpacedBinary(text) /\ Fold(Strip(text)).ok)
        => r = Fold(Strip(text)).val

\* C3: inserting whitespace runs of any length around the tokens of a
\* whitespace-free expression e does not change the result: over the spaced
\* text expr ends as it does over e, whose result is the left fold of e.
C3_WhitespaceInsensitive ==
    (Fresh /\ IsSpaced(text) /\ Fold(Strip(text)).ok)
        => /\ pc # "abort"
           /\ pc = "done" => r = Fold(Strip(text)).val

\* a division operator followed, after optional whitespace, by a term of value 0
DividesByZero(t) ==
    \E i \in 1..Len(t) :
        /\ t[i] = "/"
        /\ LET j == SkipWs(t, i + 1)
               n == DigitRun(t, j)
           IN  n >= 1 /\ \A k \in j..(j + n - 1) : t[k] = "0"

\* C4: over an expression text in which a division operator is followed by a
\* term of value 0, with or without whitespace around the operator, expr on
\* a fresh Context never returns a value.
C4_DivisionByZeroFatal ==
    (Fresh /\ pc = "done" /\ IsSpaced(text)) => ~DividesByZero(text)

\* C5: a fold step r op t (op one of + - *) whose mathematical result is
\* outside the signed 32-bit range aborts, and so does the parse of a digit
\* run above 2^31 - 1: no wrapped value is ever produced.
C5_OverflowFatal ==
    [][ /\ (pc = "term_ret" /\ op \in {"+", "-", "*"} /\ ~MathOp(op, r, tval).ok)
            => pc' = "abort"
        /\ (pc = "eat_int" /\ current_token.token_type # "Int" /\ Len(buffer) > 0
              /\ ~Fold(buffer).ok)
            => pc' = "abort" ]_vars

---------------------------------------------------------------------------
(* C6 *)

\* the running term was called at a cursor from which the first character
\* after optional whitespace is not a digit (or there is none)
MissingOperand ==
    /\ term_start # -1
    /\ LET j == SkipWs(text, term_start + 1) IN
       j > Len(text) \/ text[j] \notin Digits

\* C6 as stated: a term called where the first token after optional
\* whitespace is not a digit returns no value, and the abort is the parse of
\* the empty digit string in eat_int.
C6_AbortsAtEmptyParse ==
    MissingOperand
        => /\ pc \notin {"term_ret", "while", "done"}
           /\ pc = "abort" => failure = "parse_empty"

\* C6 as amended: a term called where the first token after optional
\* whitespace is not a digit returns no value; the abort is the parse of the
\* empty digit string in eat_int, unless a scan made while the whitespace is
\* skipped meets an unrecognized character first, and then it is the parse
\* error of get_next_token at that character.
C6_MissingOperandFatal ==
    MissingOperand
        => /\ pc \notin {"term_ret", "while", "done"}
           /\ pc = "abort"
                => \/ failure = "parse_empty"
                   \/ /\ failure = "parse_error"
                      /\ cursor < Len(text)
                      /\ ~Recognized(text[cursor + 1])

\* an operator at the end of the input: the term after it found no digit
C6_Witness ==
    /\ pc = "abort"
    /\ failure = "parse_empty"
    /\ MissingOperand
    /\ op # ""
    /\ term_start = Len(text)

---------------------------------------------------------------------------
(* C7 *)

\* the zero-based position the step enabled in this state scans, -1 if it
\* scans none
ScanAt ==
    CASE pc \in {"idle", "done"} -> cursor
      [] pc = "eat_whitespace" /\ current_token.token_type = "SPC" -> cursor + 1
      [] pc = "look_ahead" -> cursor + 1
      [] pc = "eat_int" /\ current_token.token_type = "Int" -> cursor + 1
      [] pc = "while" /\ current_token.token_type = "Op" -> cursor + 1
      [] OTHER -> -1

\* C7: every scan (from expr, from eat or from look_ahead) at a position
\* whose character is no digit, whitespace or operator aborts the evaluation
\* with the parse error; and a term never returns with such a character
\* directly after its last digit.
C7_UnrecognizedFatal ==
    /\ [][ (/\ ScanAt >= 0
            /\ ScanAt < Len(text)
            /\ ~Recognized(text[ScanAt + 1])
            /\ pc' # "idle")
              => (pc' = "abort" /\ failure' = "parse_error") ]_vars
    /\ [] ((pc \in {"term_ret", "while", "done"} /\ cursor < Len(text))
              => Recognized(text[cursor + 1]))

\* the rescan after a digit of a term met an unrecognized character
C7_Witness ==
    /\ pc = "abort"
    /\ failure = "parse_error"
    /\ Len(buffer) >= 1
    /\ cursor >= 1
    /\ cursor < Len(text)
    /\ text[cursor] \in Digits
    /\ ~Recognized(text[cursor + 1])

---------------------------------------------------------------------------
(* C8 *)

\* C8: on a text d op rest scanned at its start (d a non-empty digit run),
\* the first call of term returns the value of d with the cursor at the
\* length of d and the operator as current_token, not consumed; it aborts
\* only when d is above 2^31 - 1, in the parse.
C8_TermStopsAtOperator ==
    LET n == DigitRun(text, 1)
        d == Fold(SubSeq(text, 1, n))
    IN  (Fresh /\ n >= 1 /\ n < Len(text) /\ text[n + 1] \in Operators)
            => /\ (pc = "term_ret" /\ op = "")
                    => /\ d.ok
                       /\ tval = d.val
                       /\ cursor = n
                       /\ current_token = Token("Op", text[n + 1])
               /\ (pc = "abort" /\ op = "" /\ cursor <= n)
                    => (failure = "parse_overflow" /\ ~d.ok)

\* term has returned 2147483647 from "2147483647+7", the cursor on the "+"
C8_Witness ==
    /\ pc = "term_ret"
    /\ op = ""
    /\ Fresh
    /\ text = <<"2", "1", "4", "7", "4", "8", "3", "6", "4", "7", "+", "7">>
    /\ tval = 2147483647
    /\ cursor = 10
    /\ current_token = Token("Op", "+")

---------------------------------------------------------------------------
(* C9 *)

\* C9: a call of set_text, on a fresh Context or after an expr that
\* returned, replaces text by its argument and leaves cursor and
\* current_token as they were.  (set_text is the only step that ends with
\* the Context idle.)
C9_SetTextOnlyText ==
    [][ pc' = "idle"
          => /\ pc \in {"idle", "done"}
             /\ text' \in SetTexts
             /\ cursor' = cursor
             /\ current_token' = current_token ]_vars

\* set_text after an expr that returned: the cursor and the token of the
\* old text are kept, here beyond the end of the new text
C9_Witness ==
    /\ pc = "idle"
    /\ cursor > Len(text)
    /\ current_token.token_type \in {"EOF", "SPC"}

---------------------------------------------------------------------------
(* C10 *)

\* C10 as stated: whenever expr on a fresh Context returns, the cursor is at
\* the end of the text and current_token is End-of-input.
C10_ConsumesAll ==
    (Fresh /\ pc = "done")
        => (cursor = Len(text) /\ current_token.token_type = "EOF")

\* C10 as amended: whenever expr on a fresh Context returns, either the
\* cursor is at the end of the text and current_token is End-of-input, or
\* the cursor is on a whitespace character that directly follows the last
\* digit of the last term, current_token is Whitespace, and that character
\* and the rest of the text are not consumed.
C10_StopsAtEndOrWhitespace ==
    (Fresh /\ pc = "done")
        => \/ cursor = Len(text) /\ current_token.token_type = "EOF"
           \/ /\ current_token.token_type = "SPC"
              /\ cursor >= 1
              /\ cursor < Len(text)
              /\ text[cursor] \in Digits
              /\ IsWs(text[cursor + 1])

\* expr has returned with an operator and a term left behind a whitespace
C10_Witness ==
    /\ pc = "done"
    /\ Fresh
    /\ current_token.token_type = "SPC"
    /\ cursor + 2 < Len(text)
    /\ \E i \in (cursor + 2)..Len(text) : text[i] \in Operators

---------------------------------------------------------------------------
(* C11 *)

\* d1, one whitespace character, d2
IsSplitNumber(t) ==
    LET n == DigitRun(t, 1) IN
    /\ n >= 1
    /\ Len(t) >= n + 2
    /\ IsWs(t[n + 1])
    /\ DigitRun(t, n + 2) = Len(t) - (n + 1)

\* C11: on a fresh Context over d1 w d2 (digit runs around one whitespace
\* character), expr returns the value of d1 alone; it aborts only when d1 is
\* above 2^31 - 1, in the parse.
C11_WhitespaceEndsNumber ==
    LET n == DigitRun(text, 1)
        d == Fold(SubSeq(text, 1, n))
    IN  (Fresh /\ IsSplitNumber(text))
            => /\ pc = "done" => (d.ok /\ r = d.val /\ cursor = n)
               /\ pc = "abort" => (failure = "parse_overflow" /\ ~d.ok)

\* "2 7" has returned 2
C11_Witness ==
    /\ pc = "done"
    /\ Fresh
    /\ text = <<"2", " ", "7">>
    /\ r = 2

---------------------------------------------------------------------------
(* C12 *)

\* eat_whitespace has just returned to term: eat_int is entered
AfterEatWhitespace == pc = "eat_int" /\ buffer = << >>

---------------------------------------------------------------------------
(* C13 *)

---------------------------------------------------------------------------
(* C14 *)

\* the step enabled in this state is a call of eat on a matching token
EatEnabled ==
    \/ pc = "eat_whitespace" /\ current_token.token_type = "SPC"
    \/ pc = "eat_int" /\ current_token.token_type = "Int"
    \/ pc = "while" /\ current_token.token_type = "Op"

\* C14: no step lowers the cursor, every successful eat raises it by exactly
\* 1, and every look_ahead that returns leaves cursor, text and
\* current_token as they were on entry.
C14_CursorMonotone ==
    [][ /\ cursor' >= cursor
        /\ (EatEnabled /\ pc' # "abort") => cursor' = cursor + 1
        /\ (pc = "look_ahead" /\ pc' # "abort")
              => (cursor' = cursor /\ text' = text /\ current_token' = current_token)
      ]_vars

\* look_ahead(1) has returned after one whitespace was eaten: the cursor is
\* one past the start of the term, not two
C14_Witness ==
    /\ AfterEatWhitespace
    /\ term_start >= 0
    /\ cursor = term_start + 1
    /\ cursor + 1 < Len(text)

---------------------------------------------------------------------------
(* C15 *)

\* the kind and value of the character at zero-based position c of t
Classify(t, c) ==
    IF c >= Len(t) THEN Token("EOF", "EOF")
    ELSE IF t[c + 1] \in Digits THEN Token("Int", t[c + 1])
    ELSE IF IsWs(t[c + 1]) THEN Token("SPC", "SPC")
    ELSE IF t[c + 1] \in Operators THEN Token("Op", t[c + 1])
    ELSE Token("NOP", "NOP")

\* C15: from the first scan of expr until it returns, in every state between
\* two steps (look_ahead is one step), current_token is the classification
\* of the text at the cursor.
C15_TokenCoherent ==
    pc \in {"term", "eat_whitespace", "look_ahead", "eat_int", "term_ret",
            "while", "done"}
        => current_token = Classify(text, cursor)

\* an operator is the current token, after the digits of a term were eaten
C15_Witness ==
    /\ pc = "while"
    /\ cursor >= 1
    /\ current_token.token_type = "Op"
    /\ current_token.value = text[cursor + 1]

---------------------------------------------------------------------------
(* C17 *)

\* C17: a fold step r / t with t > 0 yields the quotient rounded toward
\* zero, also for a negative accumulator: "0-7/2" returns -3, not -4.
C17_DivisionTruncates ==
    /\ [][ (pc = "term_ret" /\ op = "/" /\ tval > 0)
              => (pc' = "while" /\ r' = MathOp("/", r, tval).val) ]_vars
    /\ [] ((Fresh /\ pc = "done" /\ text = <<"0", "-", "7", "/", "2">>) => r = -3)

\* "0-7/2" has returned -3
C17_Witness ==
    /\ pc = "done"
    /\ Fresh
    /\ text = <<"0", "-", "7", "/", "2">>
    /\ r = -3

---------------------------------------------------------------------------
(* C16 *)

\* the scan at zero-based position c of t returns a token
Scannable(t, c) == Len(t) > 0 /\ (c >= Len(t) \/ Recognized(t[c + 1]))

\* C16 as stated, on the non-empty texts: eat on a matching kind advances the
\* cursor by one and makes current_token the scan at the new cursor; on any
\* other kind it fails and leaves cursor, text and current_token unchanged.
C16_AllOrNothing ==
    [][ \A k \in TokenType :
          (eat_call(k) /\ Len(text) > 0)
            => IF current_token.token_type = k
               THEN /\ pc' = "eat_ret"
                    /\ cursor' = cursor + 1
                    /\ text' = text
                    /\ current_token' = Classify(text, cursor + 1)
               ELSE /\ pc' = "abort"
                    /\ cursor' = cursor
                    /\ text' = text
                    /\ current_token' = current_token ]_vars

\* C16: eat on a matching kind advances the cursor by one and makes
\* current_token the scan at the new cursor, unless that scan fails, and then
\* eat fails with the cursor advanced and current_token unchanged; on any
\* other kind it fails and leaves cursor, text and current_token unchanged.
C16_EatMatchOrMismatch ==
    [][ \A k \in TokenType :
          eat_call(k)
            => IF current_token.token_type = k
               THEN /\ cursor' = cursor + 1
                    /\ text' = text
                    /\ IF Scannable(text, cursor + 1)
                       THEN pc' = "eat_ret" /\ current_token' = Classify(text, cursor + 1)
                       ELSE pc' = "abort" /\ current_token' = current_token
               ELSE /\ pc' = "abort"
                    /\ failure' \in {"eat_mismatch", "eat_mismatch_out_of_bounds"}
                    /\ cursor' = cursor
                    /\ text' = text
                    /\ current_token' = current_token ]_vars

\* eat has failed on a kind that is not the one of the current token, in the
\* middle of a text
C16_Witness ==
    /\ pc = "abort"
    /\ failure = "eat_mismatch"
    /\ cursor >= 1
    /\ current_token = Classify(text, cursor)
    /\ current_token.token_type = "Int"

---------------------------------------------------------------------------
(* C20 *)

\* C20: no evaluation ever fails in the mismatch branch of eat: every abort
\* is an unrecognized character, an empty or out-of-range digit string, an
\* arithmetic overflow, a division by zero or the scan of an empty text.
C20_NoEatMismatch ==
    pc = "abort"
        => \/ failure \in {"parse_error", "parse_empty", "parse_overflow",
                           "add_overflow", "multiply_overflow", "divide_by_zero"}
           \/ failure = "subtract_overflow" /\ (Len(text) = 0 \/ op = "-")
           \/ failure = "index_out_of_bounds" /\ Len(text) = 0

\* an evaluation has aborted in its second term, after two matching eats
C20_Witness ==
    /\ pc = "abort"
    /\ failure = "parse_empty"
    /\ op \in Operators
    /\ cursor >= 2

---------------------------------------------------------------------------
(* C18 *)

\* a call of expr is in progress
Running == pc \notin {"idle", "done", "abort"}

---------------------------------------------------------------------------
(* C19 *)

\* the characters of t from zero-based position c on
Suffix(t, c) == SubSeq(t, c + 1, Len(t))

\* what expr does on a fresh Context over t
FreshResult(t) == expr_result(t, 0, NopToken, overflow_checks)

\* an evaluation has ended
Finished == pc \in {"done", "abort"} /\ start >= 0

\* C19: an evaluation that starts at cursor c (c = 0 on a fresh Context, c
\* the retained cursor after set_text) ends as the evaluation of a fresh
\* Context over the suffix of the text from c ends: the same value and the
\* same token with the cursor shifted by c, or an abort; the same abort at
\* the same shifted place when c is inside the text.
C19_ReuseIsSuffix ==
    Finished
        => LET o == FreshResult(Suffix(text, start)) IN
           /\ pc = "done"
                 => /\ o.err = ""
                    /\ r = o.val
                    /\ cursor = start + o.cursor
                    /\ current_token = o.tok
           /\ pc = "abort"
                 => /\ o.err # ""
                    /\ start < Len(text) => (failure = o.err /\ cursor = start + o.cursor)

\* C19 as stated: the reused evaluation is the fresh evaluation of the
\* suffix, and with a retained cursor c >= 1 it does not return what a fresh
\* Context over the whole text returns at the same final cursor.
C19_FreshOnlyAtZero ==
    /\ C19_ReuseIsSuffix
    /\ (pc = "done" /\ start >= 1)
          => LET f == FreshResult(text) IN
             ~(f.err = "" /\ f.val = r /\ f.cursor = cursor /\ f.tok = current_token)

\* a reused Context has returned the value of the suffix of its new text
C19_Witness ==
    /\ pc = "done"
    /\ start >= 1
    /\ start < Len(text)
    /\ text \in SetTexts
    /\ r = 147483647

====
